---- MODULE Spec2Model ----
(***************************************************************************)
(* A model of js-3d-model-viewer (src/src/index.js).                       *)
(*                                                                         *)
(* The file holds two variants of the viewer.  The later one (lines 132 to *)
(* 412) keeps all state on the scene object that prepareScene returns: the *)
(* session.  One session is modelled; sessions share no state.  The        *)
(* earlier one (lines 1 to 131) keeps a single module-level scene and is   *)
(* modelled by the variables whose names start with "legacy".              *)
(*                                                                         *)
(* The loaders, the scene graph and the browser are external.  A fetch is  *)
(* modelled by what the code can observe of it: any number of progress     *)
(* callbacks and then one completion or one failure.                        *)
(***************************************************************************)
EXTENDS Naturals, Sequences, FiniteSets

VARIABLES
    hasWebkitFullScreen, \* 'webkitCancelFullScreen' in document
    hasMozFullScreen,    \* 'mozCancelFullScreen' in document
    children,            \* scene.children
    lights,              \* the keys of scene.lights
    locked,              \* scene.locked
    cameraFit,           \* 0: camera.position.z is the default; i: set by the fit to load i's object
    loads,               \* one record per accepted loadObject call: its loaders and closures
    events,              \* the CustomEvents dispatched on scene.element, in order
    callbacks,           \* the invocations of the callers' callbacks, in order
    nCalls,              \* the number of loadObject calls made
    fullscreenEl,        \* the container has been asked to go fullscreen
    resizeDispatched,    \* the synthesized 'resize' events dispatched on window
    aspectFrom,          \* where camera.aspect was last computed from
    timers,              \* pending setTimeout(resize, 100) callbacks
    nFsCalls,            \* the number of goFullScreen calls made
    lastOp,              \* the most recent operation or handler, its inputs and return value
    legacyChildren,      \* earlier variant: the module-level scene's children
    legacyLoads,         \* earlier variant: the state of each objLoader.load
    legacyPrepared,      \* earlier variant: the number of prepareScene calls
    legacyLastOp         \* earlier variant: the most recent operation

sessionVars == <<hasWebkitFullScreen, hasMozFullScreen, children, lights, locked,
                 cameraFit, loads, events, callbacks, nCalls, fullscreenEl,
                 resizeDispatched, aspectFrom, timers, nFsCalls, lastOp>>

legacyVars == <<legacyChildren, legacyLoads, legacyPrepared, legacyLastOp>>

vars == <<sessionVars, legacyVars>>

----------------------------------------------------------------------------
(* Bounds of the model. *)

MaxCalls == 2

MaxProgress == 2

MaxBytes == 1

MaxFsCalls == 1

MaxLegacyLoads == 3

MaxLegacyPrepare == 1

(* The node kinds of the graphs the mesh parser may produce. *)
ObjShapes == { <<"Mesh">>, <<"Mesh", "LineSegments">>, <<"LineSegments", "Mesh", "Mesh">> }

----------------------------------------------------------------------------
(* Scene graph helpers. *)

Light(type, name) ==
    [type |-> type, name |-> name, load |-> 0, nodes |-> <<>>, centred |-> FALSE]

RemoveAt(s, k) == SubSeq(s, 1, k - 1) \o SubSeq(s, k + 1, Len(s))

(* Array.prototype.forEach over scene.children with scene.remove(obj) in   *)
(* the callback: the indices 1..len of the array as it was at the start    *)
(* are visited in order, an index past the current end is skipped, and a   *)
(* removal splices the array, shifting the later children down by one.     *)
RECURSIVE ForEachRemoveGroups(_, _, _)
ForEachRemoveGroups(ch, k, len) ==
    IF k > len THEN ch
    ELSE IF k <= Len(ch) /\ ch[k].type = "Group"
         THEN ForEachRemoveGroups(RemoveAt(ch, k), k + 1, len)
         ELSE ForEachRemoveGroups(ch, k + 1, len)

clearSceneChildren(ch) == ForEachRemoveGroups(ch, 1, Len(ch))

----------------------------------------------------------------------------
(* The session of the later variant. *)

setLights ==
    [children |-> << Light("DirectionalLight", "backLight"),
                     Light("DirectionalLight", "fillLight"),
                     Light("AmbientLight", "ambient") >>,
     lights   |-> {"ambient"}]

NoOp == [op |-> "none", load |-> 0, loaded |-> 0, total |-> 0, ret |-> "none"]

Op(name, i, ret) == [op |-> name, load |-> i, loaded |-> 0, total |-> 0, ret |-> ret]

prepareScene ==
    /\ children = setLights.children
    /\ lights = setLights.lights
    /\ locked = FALSE
    /\ cameraFit = 0
    /\ aspectFrom = "container"
    /\ timers = 0

InitLegacyVars ==
    /\ legacyChildren = <<>>
    /\ legacyLoads = <<>>
    /\ legacyPrepared = 0
    /\ legacyLastOp = "none"

InitSession ==
    /\ prepareScene
    /\ loads = <<>>
    /\ events = <<>>
    /\ callbacks = <<>>
    /\ nCalls = 0
    /\ fullscreenEl = FALSE
    /\ resizeDispatched = 0
    /\ nFsCalls = 0
    /\ lastOp = NoOp

Init ==
    /\ hasWebkitFullScreen \in BOOLEAN
    /\ hasMozFullScreen \in BOOLEAN
    /\ InitSession
    /\ InitLegacyVars


----------------------------------------------------------------------------
(* Asset loading. *)

Event(name, i, loaded, total) ==
    [name |-> name, load |-> i, loaded |-> loaded, total |-> total]

emitEvent(name, i, loaded, total) == Append(events, Event(name, i, loaded, total))

(* The test on entry to loadObject. *)
LockCheckSkipped == FALSE

LockCheck == locked

(* The value loadObject gives scene.locked once the call is accepted. *)
LockOnAcceptForgotten == locked

LockOnAccept == TRUE

(* loadObj: objLoader.load(url, ...) starts the mesh fetch. *)
loadObj(l) == [l EXCEPT !.mesh = "inflight"]

NewLoad(materialUrl, callback) ==
    LET l == [materialUrl |-> materialUrl, callback |-> callback,
              mtl |-> IF materialUrl THEN "inflight" ELSE "none",
              mesh |-> "idle", materials |-> FALSE, progress |-> 0,
              threw |-> FALSE]
    IN  IF materialUrl THEN l ELSE loadObj(l)

loadObject(materialUrl, callback) ==
    /\ nCalls < MaxCalls
    /\ nCalls' = nCalls + 1
    /\ IF LockCheck
       THEN /\ lastOp' = Op("loadObject", 0, "false")
            /\ UNCHANGED <<locked, loads>>
       ELSE /\ locked' = LockOnAccept
            /\ loads' = Append(loads, NewLoad(materialUrl, callback))
            /\ lastOp' = Op("loadObject", Len(loads) + 1, "objLoader")
    /\ UNCHANGED <<hasWebkitFullScreen, hasMozFullScreen, children, lights, cameraFit,
                   events, callbacks, fullscreenEl, resizeDispatched, aspectFrom,
                   timers, nFsCalls, legacyVars>>

(* The completion callback of mtlLoader.load: the materials are set on the *)
(* loader and only then is the mesh fetch started.                         *)
MtlLoaded(i) ==
    /\ loads[i].mtl = "inflight"
    /\ loads' = [loads EXCEPT ![i] = loadObj([@ EXCEPT !.mtl = "done", !.materials = TRUE])]
    /\ lastOp' = Op("mtlLoaded", i, "none")
    /\ UNCHANGED <<hasWebkitFullScreen, hasMozFullScreen, children, lights, locked,
                   cameraFit, events, callbacks, nCalls, fullscreenEl,
                   resizeDispatched, aspectFrom, timers, nFsCalls, legacyVars>>

(* mtlLoader.load is given no error callback: a failed material fetch runs *)
(* no code of the viewer.                                                  *)
MtlFailed(i) ==
    /\ loads[i].mtl = "inflight"
    /\ loads' = [loads EXCEPT ![i].mtl = "failed"]
    /\ lastOp' = Op("mtlFailed", i, "none")
    /\ UNCHANGED <<hasWebkitFullScreen, hasMozFullScreen, children, lights, locked,
                   cameraFit, events, callbacks, nCalls, fullscreenEl,
                   resizeDispatched, aspectFrom, timers, nFsCalls, legacyVars>>

(* The detail of the 'loading' event for a progress callback. *)
ProgressDetailUnchecked(loaded, total) == [loaded |-> loaded, total |-> total]

ProgressDetail(loaded, total) ==
    IF total = 0 THEN [loaded |-> 0, total |-> 100]
                 ELSE [loaded |-> loaded, total |-> total]

MeshProgress(i, loaded, total) ==
    /\ loads[i].mesh = "inflight"
    /\ loads[i].progress < MaxProgress
    /\ loads' = [loads EXCEPT ![i].progress = @ + 1]
    /\ LET d == ProgressDetail(loaded, total)
       IN  events' = emitEvent("loading", i, d.loaded, d.total)
    /\ lastOp' = [op |-> "meshProgress", load |-> i, loaded |-> loaded,
                  total |-> total, ret |-> "none"]
    /\ UNCHANGED <<hasWebkitFullScreen, hasMozFullScreen, children, lights, locked,
                   cameraFit, callbacks, nCalls, fullscreenEl, resizeDispatched,
                   aspectFrom, timers, nFsCalls, legacyVars>>

(* The graph the parser builds: a mesh takes its material from the         *)
(* loader's materials when they are set and the parser's own otherwise.    *)
Parse(shape, materials) ==
    [k \in DOMAIN shape |->
        [kind |-> shape[k],
         material |-> IF shape[k] = "Mesh"
                      THEN (IF materials THEN "mtl" ELSE "parserDefault")
                      ELSE "line"]]

(* if (!objLoader.materials) *)
UsesFallbackAlways(materials) == TRUE

UsesFallback(materials) == ~materials

(* obj.traverse: the grey phong material on every mesh. *)
ApplyFallback(nodes) ==
    [k \in DOMAIN nodes |->
        IF nodes[k].kind = "Mesh" THEN [nodes[k] EXCEPT !.material = "grey"]
                                  ELSE nodes[k]]

(* fitCameraToObject: the object is centred and camera.position.z is set,  *)
(* then the key, fill and back lights of the light set are positioned.     *)
(* Reading .position of a light the set does not hold throws a TypeError.  *)
fitCameraToObject(lts) ==
    [threw |-> ~({"keyLight", "fillLight", "backLight"} \subseteq lts)]

(* The completion callback of objLoader.load.  What fitCameraToObject      *)
(* throws leaves the callback uncaught: the statements after the call,     *)
(* which release the lock, invoke the callback and emit 'loaded', do not   *)
(* run.                                                                    *)
MeshLoaded(i, shape) ==
    /\ loads[i].mesh = "inflight"
    /\ LET l      == loads[i]
           parsed == Parse(shape, l.materials)
           nodes  == IF UsesFallback(l.materials) THEN ApplyFallback(parsed) ELSE parsed
           obj    == [type |-> "Group", name |-> "obj", load |-> i,
                      nodes |-> nodes, centred |-> TRUE]
           fit    == fitCameraToObject(lights)
       IN  /\ children' = Append(children, obj)
           /\ cameraFit' = i
           /\ loads' = [loads EXCEPT ![i].mesh = "done", ![i].threw = fit.threw]
           /\ IF fit.threw
              THEN UNCHANGED <<locked, callbacks, events>>
              ELSE /\ locked' = FALSE
                   /\ callbacks' = IF l.callback
                                   THEN Append(callbacks, [load |-> i, arg |-> "obj"])
                                   ELSE callbacks
                   /\ events' = emitEvent("loaded", i, 0, 0)
    /\ lastOp' = Op("meshLoaded", i, "none")
    /\ UNCHANGED <<hasWebkitFullScreen, hasMozFullScreen, lights, nCalls, fullscreenEl,
                   resizeDispatched, aspectFrom, timers, nFsCalls, legacyVars>>

(* The error callback of objLoader.load. *)
MeshError(i) ==
    /\ loads[i].mesh = "inflight"
    /\ loads' = [loads EXCEPT ![i].mesh = "failed"]
    /\ events' = emitEvent("error", i, 0, 0)
    /\ callbacks' = IF loads[i].callback
                    THEN Append(callbacks, [load |-> i, arg |-> "err"])
                    ELSE callbacks
    /\ lastOp' = Op("meshError", i, "none")
    /\ UNCHANGED <<hasWebkitFullScreen, hasMozFullScreen, children, lights, locked,
                   cameraFit, nCalls, fullscreenEl, resizeDispatched, aspectFrom,
                   timers, nFsCalls, legacyVars>>

----------------------------------------------------------------------------
(* Clearing, reset, fullscreen and resize. *)

clearScene ==
    /\ children' = clearSceneChildren(children)
    /\ lastOp' = Op("clearScene", 0, "none")
    /\ UNCHANGED <<hasWebkitFullScreen, hasMozFullScreen, lights, locked, cameraFit,
                   loads, events, callbacks, nCalls, fullscreenEl, resizeDispatched,
                   aspectFrom, timers, nFsCalls, legacyVars>>

(* controls.reset() puts the camera back where it was when the controls    *)
(* were built, which is the default position of setCamera.                 *)
resetCamera ==
    /\ cameraFit' = 0
    /\ lastOp' = Op("resetCamera", 0, "none")
    /\ UNCHANGED <<hasWebkitFullScreen, hasMozFullScreen, children, lights, locked,
                   loads, events, callbacks, nCalls, fullscreenEl, resizeDispatched,
                   aspectFrom, timers, nFsCalls, legacyVars>>

(* The inner resize of onWindowResize: the size is the window's when the   *)
(* host reports fullscreen and the container's otherwise.                  *)
resize(isFullscreen) == IF isFullscreen THEN "window" ELSE "container"

goFullScreen ==
    /\ nFsCalls < MaxFsCalls
    /\ nFsCalls' = nFsCalls + 1
    /\ IF hasWebkitFullScreen
       THEN /\ fullscreenEl' = TRUE
            /\ resizeDispatched' = resizeDispatched + 1
            /\ \E isFullscreen \in BOOLEAN : aspectFrom' = resize(isFullscreen)
            /\ timers' = timers + 1
            /\ lastOp' = Op("goFullScreen", 0, "true")
       ELSE IF hasMozFullScreen
       THEN /\ fullscreenEl' = TRUE
            /\ lastOp' = Op("goFullScreen", 0, "undefined")
            /\ UNCHANGED <<resizeDispatched, aspectFrom, timers>>
       ELSE /\ lastOp' = Op("goFullScreen", 0, "false")
            /\ UNCHANGED <<fullscreenEl, resizeDispatched, aspectFrom, timers>>
    /\ UNCHANGED <<hasWebkitFullScreen, hasMozFullScreen, children, lights, locked,
                   cameraFit, loads, events, callbacks, nCalls, legacyVars>>

(* setTimeout(resize, 100) *)
ResizeTimeout ==
    /\ timers > 0
    /\ timers' = timers - 1
    /\ \E isFullscreen \in BOOLEAN : aspectFrom' = resize(isFullscreen)
    /\ lastOp' = Op("resizeTimeout", 0, "none")
    /\ UNCHANGED <<hasWebkitFullScreen, hasMozFullScreen, children, lights, locked,
                   cameraFit, loads, events, callbacks, nCalls, fullscreenEl,
                   resizeDispatched, nFsCalls, legacyVars>>

Next ==
    \/ \E materialUrl \in BOOLEAN, callback \in BOOLEAN : loadObject(materialUrl, callback)
    \/ \E i \in DOMAIN loads : MtlLoaded(i)
    \/ \E i \in DOMAIN loads : MtlFailed(i)
    \/ \E i \in DOMAIN loads, loaded \in 0..MaxBytes, total \in {0, MaxBytes} :
          MeshProgress(i, loaded, total)
    \/ \E i \in DOMAIN loads, shape \in ObjShapes : MeshLoaded(i, shape)
    \/ \E i \in DOMAIN loads : MeshError(i)
    \/ clearScene
    \/ resetCamera
    \/ goFullScreen
    \/ ResizeTimeout

Spec == Init /\ [][Next]_vars

----------------------------------------------------------------------------
(* The earlier variant: one module-level scene, no lock. *)

legacySetLights ==
    << Light("AmbientLight", "ambient"),
       Light("DirectionalLight", "keyLight"),
       Light("DirectionalLight", "fillLight"),
       Light("DirectionalLight", "backLight") >>

legacyPrepareScene ==
    /\ legacyPrepared < MaxLegacyPrepare
    /\ legacyPrepared' = legacyPrepared + 1
    /\ legacyChildren' = legacyChildren \o legacySetLights
    /\ legacyLastOp' = "prepareScene"
    /\ UNCHANGED <<legacyLoads, sessionVars>>

legacyLoadObject ==
    /\ Len(legacyLoads) < MaxLegacyLoads
    /\ legacyLoads' = Append(legacyLoads, "inflight")
    /\ legacyLastOp' = "loadObject"
    /\ UNCHANGED <<legacyChildren, legacyPrepared, sessionVars>>

legacyObjLoaded(i, shape) ==
    /\ legacyLoads[i] = "inflight"
    /\ legacyLoads' = [legacyLoads EXCEPT ![i] = "done"]
    /\ legacyChildren' = Append(legacyChildren,
           [type |-> "Group", name |-> "obj", load |-> i,
            nodes |-> ApplyFallback(Parse(shape, FALSE)), centred |-> FALSE])
    /\ legacyLastOp' = "objLoaded"
    /\ UNCHANGED <<legacyPrepared, sessionVars>>

(* objLoader.load is given no error callback. *)
legacyObjFailed(i) ==
    /\ legacyLoads[i] = "inflight"
    /\ legacyLoads' = [legacyLoads EXCEPT ![i] = "failed"]
    /\ legacyLastOp' = "objFailed"
    /\ UNCHANGED <<legacyChildren, legacyPrepared, sessionVars>>

legacyClearScene ==
    /\ legacyChildren' = clearSceneChildren(legacyChildren)
    /\ legacyLastOp' = "clearScene"
    /\ UNCHANGED <<legacyLoads, legacyPrepared, sessionVars>>

InitLegacy ==
    /\ hasWebkitFullScreen = FALSE
    /\ hasMozFullScreen = FALSE
    /\ InitSession
    /\ InitLegacyVars

NextLegacy ==
    \/ legacyPrepareScene
    \/ legacyLoadObject
    \/ \E i \in DOMAIN legacyLoads, shape \in ObjShapes : legacyObjLoaded(i, shape)
    \/ \E i \in DOMAIN legacyLoads : legacyObjFailed(i)
    \/ legacyClearScene

SpecLegacy == InitLegacy /\ [][NextLegacy]_vars

----------------------------------------------------------------------------
(* What the claims speak of. *)

InFlight(l) == l.mtl = "inflight" \/ l.mesh = "inflight"

InFlightCount == Cardinality({i \in DOMAIN loads : InFlight(loads[i])})

MeshFailed(l) == l.mesh = "failed"

MtlFetchFailed(l) == l.mtl = "failed"

Terminal(l) == l.mesh = "done" \/ MeshFailed(l) \/ MtlFetchFailed(l)

EventsOf(i) == LET Mine(e) == e.load = i IN SelectSeq(events, Mine)

CountEvents(i, name) ==
    Cardinality({k \in DOMAIN events : events[k].load = i /\ events[k].name = name})

CountCallbacks(i, arg) ==
    Cardinality({k \in DOMAIN callbacks : callbacks[k] = [load |-> i, arg |-> arg]})

IsLoadObjectCall == lastOp'.op = "loadObject" /\ nCalls' # nCalls

NonGroups(ch) == LET Keep(c) == c.type # "Group" IN SelectSeq(ch, Keep)

----------------------------------------------------------------------------
(* C1: a loadObject call made while the session is locked returns false    *)
(* and changes nothing: no event, no fetch, no callback, the lock and the  *)
(* scene's children as they were.                                          *)
C1_LockedLoadRejected ==
    [][(IsLoadObjectCall /\ locked) =>
          /\ lastOp'.ret = "false"
          /\ UNCHANGED <<locked, children, loads, events, callbacks, lights,
                         cameraFit>>]_vars

C1_Witness ==
    /\ lastOp.op = "loadObject"
    /\ lastOp.ret = "false"
    /\ locked

(* C2: when the mesh fetch of an accepted load completes, the success      *)
(* handler runs to its end: the object is a child of the scene, the fit    *)
(* ran against the light set without failing, the lock is released, the    *)
(* callback got the object and exactly one 'loaded' event was emitted.     *)
C2_SuccessHandlerCompletes ==
    [][lastOp'.op = "meshLoaded" =>
          LET i == lastOp'.load
          IN  /\ \E k \in DOMAIN children' :
                    children'[k].type = "Group" /\ children'[k].load = i
              /\ cameraFit' = i
              /\ ~loads'[i].threw
              /\ locked' = FALSE
              /\ (loads[i].callback =>
                     callbacks' = Append(callbacks, [load |-> i, arg |-> "obj"]))
              /\ events' = Append(events, Event("loaded", i, 0, 0))]_vars

(* C3: once every accepted load has reached its terminal outcome (mesh     *)
(* success, mesh error or material-fetch failure) the lock is released.    *)
C3_LockReleasedAtEnd ==
    (\A i \in DOMAIN loads : Terminal(loads[i])) => locked = FALSE

(* C4: a load that fails, in the mesh fetch or in the material fetch,      *)
(* emits exactly one 'error' event and no 'loaded' event, and its callback *)
(* is invoked with the error.                                              *)
C4_FailureReported ==
    \A i \in DOMAIN loads :
        (MeshFailed(loads[i]) \/ MtlFetchFailed(loads[i])) =>
            /\ CountEvents(i, "error") = 1
            /\ CountEvents(i, "loaded") = 0
            /\ (loads[i].callback => CountCallbacks(i, "err") = 1)

(* C5: at most one load is in flight, the material fetch and the mesh      *)
(* fetch of one request counting as one; a loadObject call made while a    *)
(* load is in flight is rejected and starts nothing, then or later: a load *)
(* only ever starts in a loadObject call made with no load in flight.      *)
C5_AtMostOneInFlight ==
    /\ InFlightCount <= 1
    /\ [][/\ InFlightCount' <= 1
          /\ (IsLoadObjectCall /\ InFlightCount > 0) =>
                (lastOp'.ret = "false" /\ loads' = loads)
          /\ (Len(loads') > Len(loads)) =>
                (IsLoadObjectCall /\ InFlightCount = 0)
          /\ \A i \in DOMAIN loads :
                (~InFlight(loads[i]) /\ i \in DOMAIN loads') => ~InFlight(loads'[i])]_vars

C5_Witness ==
    /\ InFlightCount = 1
    /\ lastOp.op = "loadObject"
    /\ lastOp.ret = "false"

(* C6: the events of one load are zero or more 'loading' events followed,  *)
(* once the load has reached its terminal outcome, by exactly one terminal *)
(* event, 'loaded' or 'error'.                                             *)
C6_ProgressThenOneTerminal ==
    \A i \in DOMAIN loads :
        LET ev == EventsOf(i)
        IN  IF Terminal(loads[i])
            THEN /\ Len(ev) >= 1
                 /\ ev[Len(ev)].name \in {"loaded", "error"}
                 /\ \A k \in 1..(Len(ev) - 1) : ev[k].name = "loading"
            ELSE \A k \in DOMAIN ev : ev[k].name = "loading"

(* C7: one clearScene call leaves no child of type 'Group' and keeps every *)
(* other child, in the same order.                                         *)
C7_ClearSceneRemovesAllGroups ==
    [][legacyLastOp' = "clearScene" =>
          legacyChildren' = NonGroups(legacyChildren)]_vars

(* C8: with either vendor API, goFullScreen requests fullscreen on the     *)
(* container, then dispatches a 'resize' event on the window, and returns  *)
(* a boolean; with neither it returns false and does nothing.              *)
C8_FullScreenResizes ==
    [][(lastOp'.op = "goFullScreen" /\ nFsCalls' # nFsCalls) =>
          IF hasWebkitFullScreen \/ hasMozFullScreen
          THEN /\ fullscreenEl'
               /\ resizeDispatched' = resizeDispatched + 1
               /\ lastOp'.ret \in {"true", "false"}
          ELSE /\ lastOp'.ret = "false"
               /\ UNCHANGED <<fullscreenEl, resizeDispatched, aspectFrom, timers>>]_vars

(* C9: a progress callback of the mesh fetch with (loaded, total) emits    *)
(* exactly one 'loading' event, with detail {0, 100} when total = 0 and    *)
(* {loaded, total} otherwise.                                              *)
C9_LoadingDetail ==
    [][lastOp'.op = "meshProgress" =>
          events' = Append(events,
              [name |-> "loading", load |-> lastOp'.load,
               loaded |-> IF lastOp'.total = 0 THEN 0 ELSE lastOp'.loaded,
               total |-> IF lastOp'.total = 0 THEN 100 ELSE lastOp'.total])]_vars

C9_Witness ==
    /\ lastOp.op = "meshProgress"
    /\ lastOp.total = 0
    /\ lastOp.loaded > 0
    /\ events # <<>>
    /\ events[Len(events)] = Event("loading", lastOp.load, 0, 100)

(* C10: with a material URL the mesh fetch starts only after the material  *)
(* fetch has completed and its materials are set on the loader, and no     *)
(* mesh of the loaded graph gets the fallback grey material; without one   *)
(* the mesh fetch is started by loadObject itself, and every mesh of the   *)
(* graph added to the scene carries the fallback grey material.            *)
C10_MaterialsBeforeMesh ==
    /\ \A i \in DOMAIN loads :
          IF loads[i].materialUrl
          THEN loads[i].mesh # "idle" => (loads[i].mtl = "done" /\ loads[i].materials)
          ELSE loads[i].mesh # "idle" /\ loads[i].mtl = "none" /\ ~loads[i].materials
    /\ \A k \in DOMAIN children :
          children[k].type = "Group" =>
              \A n \in DOMAIN children[k].nodes :
                  children[k].nodes[n].kind = "Mesh" =>
                      (children[k].nodes[n].material = "grey"
                          <=> ~loads[children[k].load].materialUrl)

C10_Witness ==
    \E k \in DOMAIN children :
        /\ children[k].type = "Group"
        /\ loads[children[k].load].materialUrl
        /\ loads[children[k].load].mtl = "done"
        /\ \E n \in DOMAIN children[k].nodes : children[k].nodes[n].material = "mtl"

====
